---- MODULE Spec2Model ----
(***************************************************************************)
(* Model of backend/server.py: the search relay (POST /api/search) and the *)
(* profile store (POST/GET/DELETE /api/profiles, PUT /api/profiles/id/tags)*)
(* over one MongoDB collection, db.profiles.                               *)
(*                                                                         *)
(* Representation of Python values:                                        *)
(*   - Optional[T] is a set with at most one element: None is {} and a     *)
(*     value v is {v};                                                     *)
(*   - a dict / JSON object is a record, a missing key a missing field;    *)
(*   - a string the code only passes around or compares for equality       *)
(*     (link, thumbnail, keywords) is a TLA+ string; a string the code or  *)
(*     the database looks into (title, snippet, tags, search_term, the     *)
(*     stored saved_at) is a sequence of one-character strings;            *)
(*   - uuid.uuid4() is a fresh identifier: the next value of a counter.    *)
(***************************************************************************)
EXTENDS Integers, Sequences, FiniteSets, Bags, TLC

VARIABLES
    store,      \* db.profiles: the documents, in insertion order
    pending,    \* bag of save requests suspended between find_one and insert_one
    nextId,     \* the next identifier uuid4 hands out
    resp,       \* what the last handler step did and answered
    prev,       \* db.profiles before the last handler step
    deleted,    \* ids whose delete succeeded
    outbound    \* the outbound provider request of the last search, if any

vars == <<store, pending, nextId, resp, prev, deleted, outbound>>

(* ------------------------------ bounds --------------------------------- *)

\* Saves and suspended saves of the concurrent and the sequential store.
MaxSaves == 2
MaxPending == 2
MaxClock == 0
\* Saves and clock readings of the listing specification.
MaxListSaves == 3
MaxListClock == 2
\* Items of a provider response.
MaxItems == 2

(* --------------------------- Python values ----------------------------- *)

None == {}

Some(v) == {v}

TheValue(o) == CHOOSE v \in o : TRUE

Range(s) == {s[i] : i \in DOMAIN s}

HTTP_OK == 200
HTTP_CONFLICT == 400
HTTP_NOT_FOUND == 404
HTTP_UNPROCESSABLE == 422
HTTP_INTERNAL == 500

(* ------------------- datetime, isoformat, fromisoformat ---------------- *)

Digits == <<"0", "1", "2", "3", "4", "5", "6", "7", "8", "9">>

\* The characters of an isoformat() string, in increasing code point order:
\* '+' 43, '-' 45, '.' 46, '0'..'9' 48..57, ':' 58, 'T' 84.
CodePointOrder == <<"+", "-", ".">> \o Digits \o <<":", "T">>

Ord(c) == CHOOSE i \in DOMAIN CodePointOrder : CodePointOrder[i] = c

\* n, zero-padded to w decimal digits (the %04d / %02d / %06d of isoformat).
RECURSIVE Pad(_, _)
Pad(n, w) == IF w = 0 THEN <<>> ELSE Pad(n \div 10, w - 1) \o <<Digits[(n % 10) + 1]>>

DigitValue(c) == (CHOOSE i \in DOMAIN Digits : Digits[i] = c) - 1

RECURSIVE ToInt(_)
ToInt(s) == IF s = <<>> THEN 0 ELSE 10 * ToInt(SubSeq(s, 1, Len(s) - 1)) + DigitValue(s[Len(s)])

\* datetime.isoformat() of an aware UTC datetime:
\* YYYY-MM-DDTHH:MM:SS[.ffffff]+00:00, the fraction only when microsecond # 0.
isoformat(dt) ==
    Pad(dt.year, 4) \o <<"-">> \o Pad(dt.month, 2) \o <<"-">> \o Pad(dt.day, 2)
    \o <<"T">> \o Pad(dt.hour, 2) \o <<":">> \o Pad(dt.minute, 2) \o <<":">> \o Pad(dt.second, 2)
    \o (IF dt.microsecond = 0 THEN <<>> ELSE <<".">> \o Pad(dt.microsecond, 6))
    \o <<"+", "0", "0", ":", "0", "0">>

\* datetime.fromisoformat() on the strings isoformat() writes.
fromisoformat(s) ==
    [year |-> ToInt(SubSeq(s, 1, 4)),
     month |-> ToInt(SubSeq(s, 6, 7)),
     day |-> ToInt(SubSeq(s, 9, 10)),
     hour |-> ToInt(SubSeq(s, 12, 13)),
     minute |-> ToInt(SubSeq(s, 15, 16)),
     second |-> ToInt(SubSeq(s, 18, 19)),
     microsecond |-> IF s[20] = "." THEN ToInt(SubSeq(s, 21, 26)) ELSE 0]

\* datetime.now(timezone.utc): the wall clock, read at half-second ticks
\* from 2025-12-31 23:59:59.000000 on; it is not assumed to be monotonic.
Tick(k) ==
    LET half == k % 2
        secs == 59 + (k \div 2)
        carry == secs \div 60
    IN  [year |-> 2025 + carry,
         month |-> IF carry = 0 THEN 12 ELSE 1,
         day |-> IF carry = 0 THEN 31 ELSE 1,
         hour |-> IF carry = 0 THEN 23 ELSE 0,
         minute |-> IF carry = 0 THEN 59 ELSE 0,
         second |-> secs % 60,
         microsecond |-> half * 500000]

Now(n) == {Tick(k) : k \in 0..n}

\* Chronological order of two datetimes (datetime.__lt__).
DateFields == <<"year", "month", "day", "hour", "minute", "second", "microsecond">>

Earlier(a, b) ==
    \E i \in DOMAIN DateFields :
        /\ a[DateFields[i]] < b[DateFields[i]]
        /\ \A j \in 1..(i - 1) : a[DateFields[j]] = b[DateFields[j]]

(* ------------------------------ models -------------------------------- *)

\* LinkedInProfileCreate(**body): thumbnail and tags default to None, and a
\* JSON null is None as well.
LinkedInProfileCreate(body) ==
    [title |-> body.title,
     link |-> body.link,
     snippet |-> body.snippet,
     thumbnail |-> IF "thumbnail" \in DOMAIN body THEN body.thumbnail ELSE None,
     tags |-> IF "tags" \in DOMAIN body THEN body.tags ELSE None]

\* ProfileData with the tags reset whether or not any were submitted.
ProfileDataTagsReset(profile) == [profile EXCEPT !.tags = Some(<<>>)]

\* Lines 145-147: profile.model_dump(), with tags None replaced by [].
ProfileData(profile) ==
    [profile EXCEPT !.tags = IF profile.tags = None THEN Some(<<>>) ELSE profile.tags]

\* LinkedInProfile(**profile_data): id and saved_at come from their default
\* factories, uuid4 and datetime.now(timezone.utc).
LinkedInProfile(profile_data, uuid, now) ==
    [id |-> uuid,
     title |-> profile_data.title,
     link |-> profile_data.link,
     snippet |-> profile_data.snippet,
     thumbnail |-> profile_data.thumbnail,
     saved_at |-> now,
     tags |-> TheValue(profile_data.tags)]

\* Lines 152-153: the document inserted, saved_at as its isoformat() string.
Document(profile_obj) == [profile_obj EXCEPT !.saved_at = isoformat(profile_obj.saved_at)]

\* Lines 185-187: a document read back, saved_at parsed into a datetime.
ReadBack(doc) == [doc EXCEPT !.saved_at = fromisoformat(doc.saved_at)]

(* ------------------------------ MongoDB -------------------------------- *)

\* An equality filter {field: value, ...} against one document.
MatchesFilter(doc, filter) == \A k \in DOMAIN filter : doc[k] = filter[k]

FirstMatch(coll, filter) ==
    LET hits == {i \in DOMAIN coll : MatchesFilter(coll[i], filter)}
    IN  IF hits = {} THEN 0 ELSE CHOOSE i \in hits : \A j \in hits : i <= j

\* collection.find_one(filter): the first matching document, or None.
find_one(coll, filter) ==
    IF FirstMatch(coll, filter) = 0 THEN None ELSE Some(coll[FirstMatch(coll, filter)])

RemoveAt(coll, i) == SubSeq(coll, 1, i - 1) \o SubSeq(coll, i + 1, Len(coll))

\* collection.delete_one(filter): removes the first matching document.
delete_one(coll, filter) ==
    LET i == FirstMatch(coll, filter)
    IN  IF i = 0 THEN [coll |-> coll, deleted_count |-> 0]
        ELSE [coll |-> RemoveAt(coll, i), deleted_count |-> 1]

\* SetTags as a merge: the new tags added to the ones the document has.
SetTagsMerged(doc, tags) == [doc EXCEPT !.tags = doc.tags \o tags]

\* The update document {"$set": {"tags": tags}} applied to one document.
SetTags(doc, tags) == [doc EXCEPT !.tags = tags]

\* collection.update_one(filter, {"$set": {"tags": tags}}): matched_count
\* counts the document matched, whether or not the update changed it.
update_one(coll, filter, tags) ==
    LET i == FirstMatch(coll, filter)
    IN  IF i = 0 THEN [coll |-> coll, matched_count |-> 0]
        ELSE [coll |-> [coll EXCEPT ![i] = SetTags(coll[i], tags)], matched_count |-> 1]

\* collection.insert_one(doc).
insert_one(coll, doc) == Append(coll, doc)

(* --------------------------- save_profile ------------------------------ *)

\* ExistingFilter on the title as well as the link.
ExistingFilterWithTitle(profile) == [link |-> profile.link, title |-> profile.title]

\* Line 140: the filter of the existence check.
ExistingFilter(profile) == [link |-> profile.link]

\* Lines 140-142, up to the await of insert_one: the request either is
\* rejected with 400 or goes on to build and insert its document.
SaveFind(body) ==
    LET profile == LinkedInProfileCreate(body)
        existing == find_one(store, ExistingFilter(profile))
    IN  /\ prev' = store
        /\ IF existing # None
           THEN /\ resp' = [op |-> "save", profile |-> profile, status |-> HTTP_CONFLICT]
                /\ UNCHANGED pending
           ELSE /\ resp' = [op |-> "save_await", profile |-> profile]
                /\ pending' = pending (+) SetToBag({profile})
        /\ UNCHANGED <<store, nextId, deleted, outbound>>

\* Lines 145-156: the document is built and inserted, the profile returned.
SaveInsert(profile, now) ==
    LET profile_obj == LinkedInProfile(ProfileData(profile), nextId, now)
    IN  /\ BagIn(profile, pending)
        /\ pending' = pending (-) SetToBag({profile})
        /\ prev' = store
        /\ store' = insert_one(store, Document(profile_obj))
        /\ nextId' = nextId + 1
        /\ resp' = [op |-> "save", profile |-> profile, status |-> HTTP_OK, body |-> profile_obj]
        /\ UNCHANGED <<deleted, outbound>>

(* --------------------------- delete_profile ---------------------------- *)

\* DeleteStatus without the deleted_count check.
DeleteStatusUnchecked(result) == HTTP_OK

\* Lines 203-206: 404 when nothing was deleted.
DeleteStatus(result) == IF result.deleted_count = 0 THEN HTTP_NOT_FOUND ELSE HTTP_OK

delete_profile(profile_id) ==
    LET result == delete_one(store, [id |-> profile_id])
    IN  /\ prev' = store
        /\ store' = result.coll
        /\ resp' = [op |-> "delete", profile_id |-> profile_id, status |-> DeleteStatus(result)]
        /\ deleted' = IF result.deleted_count = 0 THEN deleted ELSE deleted \cup {profile_id}
        /\ UNCHANGED <<pending, nextId, outbound>>

(* ------------------------- update_profile_tags ------------------------- *)

\* Lines 225-228: 404 when nothing matched.
UpdateStatus(result) == IF result.matched_count = 0 THEN HTTP_NOT_FOUND ELSE HTTP_OK

update_profile_tags(profile_id, tags) ==
    LET result == update_one(store, [id |-> profile_id], tags)
    IN  /\ prev' = store
        /\ store' = result.coll
        /\ resp' = [op |-> "update_tags", profile_id |-> profile_id, tags |-> tags,
                    status |-> UpdateStatus(result)]
        /\ UNCHANGED <<pending, nextId, deleted, outbound>>

(* -------------------------- get_saved_profiles ------------------------- *)

\* Python truthiness of an Optional[str]: None and "" are false.
Truthy(o) == o # None /\ TheValue(o) # <<>>

\* Case folding of the regex option "i" and of text search, on the letters
\* the model's strings are made of.
Lower(c) == CASE c = "A" -> "a" [] c = "B" -> "b" [] OTHER -> c

\* One pattern character against one text character: in a regular
\* expression "." stands for any character but a newline, a letter for
\* itself in either case.
RegexCharMatches(p, c) == IF p = "." THEN c # "\n" ELSE Lower(p) = Lower(c)

\* {"$regex": pattern, "$options": "i"} on a string field: an unanchored
\* search. The patterns of the model are made of letters and ".".
RegexSearch(pattern, text) ==
    \E i \in 0..(Len(text) - Len(pattern)) :
        \A j \in 1..Len(pattern) : RegexCharMatches(pattern[j], text[i + j])

RECURSIVE split(_, _)
\* str.split(sep) for a one-character separator.
split(s, sep) ==
    LET at == {i \in DOMAIN s : s[i] = sep}
    IN  IF at = {} THEN <<s>>
        ELSE LET i == CHOOSE k \in at : \A m \in at : k <= m
             IN  <<SubSeq(s, 1, i - 1)>> \o split(SubSeq(s, i + 1, Len(s)), sep)

RECURSIVE strip(_)
\* str.strip(): leading and trailing blanks removed.
strip(s) ==
    IF s = <<>> THEN s
    ELSE IF Head(s) = " " THEN strip(Tail(s))
    ELSE IF s[Len(s)] = " " THEN strip(SubSeq(s, 1, Len(s) - 1))
    ELSE s

\* Lines 170-180: the query document.
BuildQuery(search_term, tags) ==
    [regex |-> IF Truthy(search_term) THEN search_term ELSE None,
     tags_in |-> IF Truthy(tags)
                 THEN LET parts == split(TheValue(tags), ",")
                      IN  Some([i \in DOMAIN parts |-> strip(parts[i])])
                 ELSE None]

\* The query {"$or": [{title: regex}, {snippet: regex}], "tags": {"$in": list}}
\* against one document; a clause that is not in the query does not filter.
MatchesQuery(doc, query) ==
    /\ \/ query.regex = None
       \/ RegexSearch(TheValue(query.regex), doc.title)
       \/ RegexSearch(TheValue(query.regex), doc.snippet)
    /\ \/ query.tags_in = None
       \/ \E t \in Range(doc.tags) : t \in Range(TheValue(query.tags_in))

\* collection.find(query): the matching documents.
find(coll, query) == SelectSeq(coll, LAMBDA doc : MatchesQuery(doc, query))

\* The order MongoDB sorts strings in (simple binary comparison): by the
\* first character that differs, a proper prefix before the longer string.
StrLess(a, b) ==
    LET differ == {i \in DOMAIN a \cap DOMAIN b : a[i] # b[i]}
    IN  IF differ = {} THEN Len(a) < Len(b)
        ELSE LET i == CHOOSE k \in differ : \A m \in differ : k <= m
             IN  Ord(a[i]) < Ord(b[i])

\* SortMayPrecede of an ascending sort.
SortMayPrecedeAscending(a, b) == ~StrLess(b.saved_at, a.saved_at)

\* sort("saved_at", -1): document a may come before document b.
SortMayPrecede(a, b) == ~StrLess(a.saved_at, b.saved_at)

Orderings(n) == {p \in [1..n -> 1..n] : \A i, j \in 1..n : p[i] = p[j] => i = j}

\* cursor.sort("saved_at", -1): every order of the documents that is
\* descending in saved_at; the order of documents with equal keys is the
\* server's choice.
sort(docs) ==
    {s \in {[i \in DOMAIN docs |-> docs[p[i]]] : p \in Orderings(Len(docs))} :
        \A i, j \in DOMAIN s : i < j => SortMayPrecede(s[i], s[j])}

ListCap == 1000

\* cursor.to_list(1000).
to_list(docs, length) == SubSeq(docs, 1, IF Len(docs) < length THEN Len(docs) ELSE length)

get_saved_profiles(search_term, tags) ==
    \E sorted \in sort(find(store, BuildQuery(search_term, tags))) :
        LET profiles == to_list(sorted, ListCap)
        IN  /\ prev' = store
            /\ resp' = [op |-> "list", search_term |-> search_term, tags |-> tags,
                        status |-> HTTP_OK,
                        body |-> [i \in DOMAIN profiles |-> ReadBack(profiles[i])]]
            /\ UNCHANGED <<store, pending, nextId, deleted, outbound>>

(* ------------------------ search_linkedin_profiles --------------------- *)

GOOGLE_API_KEY == "key"
GOOGLE_CSE_ID == "cx"

PageSize == 10
DefaultStartIndex == 1

\* dict.get(key, default).
Get(d, key, default) == IF key \in DOMAIN d THEN d[key] ELSE default

\* Optional[T] field of a request body: None when the key is missing.
Opt(body, key) == IF key \in DOMAIN body THEN Some(body[key]) ELSE None

\* Pydantic's validation of the body against SearchRequest: keywords is the
\* one required field, and it is declared as a plain str.
SearchRequestValid(body) == "keywords" \in DOMAIN body

SearchRequest(body) ==
    [keywords |-> body.keywords,
     location |-> Opt(body, "location"),
     job_title |-> Opt(body, "job_title"),
     company |-> Opt(body, "company"),
     start_index |-> Get(body, "start_index", DefaultStartIndex)]

\* Python truthiness of an Optional[str] held as a TLA+ string.
TruthyStr(o) == o # None /\ TheValue(o) # ""

IfPresent(o) == IF TruthyStr(o) THEN <<TheValue(o)>> ELSE <<>>

RECURSIVE join(_, _)
\* sep.join(parts).
join(sep, parts) ==
    IF parts = <<>> THEN ""
    ELSE IF Len(parts) = 1 THEN parts[1]
    ELSE parts[1] \o sep \o join(sep, Tail(parts))

\* Lines 83-102: the parameters of the outbound request.
SearchParams(request) ==
    LET query_parts == <<request.keywords>> \o IfPresent(request.location)
                       \o IfPresent(request.job_title) \o IfPresent(request.company)
    IN  [key |-> GOOGLE_API_KEY,
         cx |-> GOOGLE_CSE_ID,
         q |-> join(" ", query_parts) \o " site:linkedin.com/in",
         start |-> request.start_index,
         num |-> PageSize]

\* Line 119: the condition under which the thumbnail expression indexes
\* the cse_thumbnail list.
HasThumbnailList(item) == "pagemap" \in DOMAIN item /\ "cse_thumbnail" \in DOMAIN item.pagemap

\* Line 119 raises IndexError on [0] of an empty list.
ItemRaises(item) == HasThumbnailList(item) /\ item.pagemap.cse_thumbnail = <<>>

\* Lines 115-120, for an item on which line 119 does not raise.
ParseItem(item) ==
    [title |-> Get(item, "title", ""),
     link |-> Get(item, "link", ""),
     snippet |-> Get(item, "snippet", ""),
     thumbnail |-> IF HasThumbnailList(item)
                   THEN Opt(item.pagemap.cse_thumbnail[1], "src")
                   ELSE None]

\* Lines 104-127: the body of the try statement, from the provider's
\* response on: what it returns or the exception it raises.
SearchTry(response) ==
    IF response.status_code # HTTP_OK
    THEN [raised |-> TRUE, exception |-> "HTTPException", status_code |-> response.status_code]
    ELSE LET data == response.data
             items == Get(data, "items", <<>>)
         IN  IF \E i \in DOMAIN items : ItemRaises(items[i])
             THEN [raised |-> TRUE, exception |-> "IndexError"]
             ELSE [raised |-> FALSE,
                   value |-> [results |-> [i \in DOMAIN items |-> ParseItem(items[i])],
                              total_results |-> Get(Get(data, "searchInformation", <<>>),
                                                    "totalResults", "0"),
                              search_time |-> Get(Get(data, "searchInformation", <<>>),
                                                  "searchTime", 0)]]

\* Lines 129-131: except Exception catches whatever the try body raised,
\* HTTPException included, and raises HTTPException(500).
SearchStatus(outcome) == IF outcome.raised THEN HTTP_INTERNAL ELSE HTTP_OK

search_linkedin_profiles(body, response) ==
    /\ IF ~SearchRequestValid(body)
       THEN /\ resp' = [op |-> "search", request |-> body, status |-> HTTP_UNPROCESSABLE]
            /\ outbound' = None
       ELSE LET outcome == SearchTry(response)
            IN  /\ outbound' = Some(SearchParams(SearchRequest(body)))
                /\ resp' = [op |-> "search", request |-> body, provider |-> response,
                            status |-> SearchStatus(outcome),
                            body |-> IF outcome.raised THEN None ELSE Some(outcome.value)]
    /\ prev' = store
    /\ UNCHANGED <<store, pending, nextId, deleted>>

(* ------------------------------ inputs --------------------------------- *)

Jane == "https://linkedin.com/in/jane"
John == "https://linkedin.com/in/john"

TagX == <<"x">>
TagY == <<"y">>
TagZ == <<"z">>

\* JSON bodies of POST /api/profiles. An Optional field is missing, null
\* (None) or a value (Some).
SaveBodies ==
    {[title |-> <<"A", "b">>, link |-> Jane, snippet |-> <<"b">>],
     [title |-> <<"b", "a">>, link |-> Jane, snippet |-> <<"a", ".">>,
      thumbnail |-> Some("https://example.com/thumbnail.jpg"), tags |-> None],
     [title |-> <<"B">>, link |-> John, snippet |-> <<>>,
      thumbnail |-> None, tags |-> Some(<<TagX, TagY>>)]}

Joe == "https://linkedin.com/in/joe"

\* Bodies of the listing specification: one per link.
ListBodies ==
    {[title |-> <<"A", "b">>, link |-> Jane, snippet |-> <<"b">>],
     [title |-> <<"B">>, link |-> John, snippet |-> <<"a", ".">>, tags |-> Some(<<TagX>>)],
     [title |-> <<"b", "a">>, link |-> Joe, snippet |-> <<>>, tags |-> Some(<<TagY, TagZ>>)]}

\* Profile ids of requests: 0 is an id no profile ever has.
ProfileIds == 0..MaxSaves

\* Bodies of PUT /api/profiles/{id}/tags.
TagLists == {<<>>, <<TagY, TagZ>>}

\* Query parameters of GET /api/profiles.
SearchTerms ==
    {None, Some(<<>>), Some(<<"A">>), Some(<<".">>), Some(<<"a", ".">>)}

TagParams == {None, Some(<<"x">>), Some(<<"z", ",", " ", "y">>)}

\* JSON bodies of POST /api/search: keywords missing, empty or given, the
\* optional fields missing, empty or given.
SearchBodies ==
    {[location |-> "San Francisco"],
     [keywords |-> ""],
     [keywords |-> "", location |-> "San Francisco"],
     [keywords |-> "software engineer"],
     [keywords |-> "software engineer", location |-> ""],
     [keywords |-> "data scientist", location |-> "San Francisco"],
     [keywords |-> "software engineer", location |-> "San Francisco",
      job_title |-> "Senior Developer", company |-> "Google", start_index |-> 11]}

\* Items of the provider's answer: without page metadata, with page
\* metadata that has no thumbnail list, with an empty thumbnail list, with
\* a thumbnail entry that has a source, with one that has none, and an item
\* with no title.
ProviderItems ==
    LET base == [title |-> "Jane Doe", link |-> Jane, snippet |-> "Engineer"]
    IN  {base,
         base @@ [pagemap |-> [metatags |-> <<>>]],
         base @@ [pagemap |-> [cse_thumbnail |-> <<>>]],
         base @@ [pagemap |-> [cse_thumbnail |-> <<[src |-> "https://example.com/t.jpg"]>>]],
         base @@ [pagemap |-> [cse_thumbnail |-> <<[width |-> "225"]>>]],
         [link |-> John, snippet |-> "Developer"]}

\* The provider's answers: a 200 with a JSON object that may lack items
\* and searchInformation, or an error status.
ProviderResponses ==
    {[status_code |-> HTTP_OK, data |-> i @@ n] :
        i \in {<<>>} \cup {[items |-> items] :
                  items \in UNION {[1..n -> ProviderItems] : n \in 0..MaxItems}},
        n \in {<<>>, [searchInformation |-> [totalResults |-> "1250", searchTime |-> 42]]}}
    \cup {[status_code |-> code, data |-> <<>>] : code \in {403, 429, HTTP_INTERNAL}}

(* --------------------------- specifications ---------------------------- *)

Init ==
    /\ store = <<>>
    /\ pending = EmptyBag
    /\ nextId = 1
    /\ resp = [op |-> "none"]
    /\ prev = <<>>
    /\ deleted = {}
    /\ outbound = None

\* Room for one more save request within the bounds.
CanSave(saves, inflight) ==
    /\ nextId + BagCardinality(pending) <= saves
    /\ BagCardinality(pending) < inflight

\* The profile store under concurrent requests: every handler is one step
\* but save_profile, which awaits the database twice.
Next ==
    \/ \E body \in SaveBodies : CanSave(MaxSaves, MaxPending) /\ SaveFind(body)
    \/ \E profile \in BagToSet(pending), now \in Now(MaxClock) : SaveInsert(profile, now)
    \/ \E profile_id \in ProfileIds : delete_profile(profile_id)
    \/ \E profile_id \in ProfileIds, tags \in TagLists : update_profile_tags(profile_id, tags)
    \/ get_saved_profiles(None, None)

Spec == Init /\ [][Next]_vars

\* No request in flight: a request starts only then.
Idle == pending = EmptyBag

\* The profile store with requests executed one at a time.
NextSeq ==
    \/ \E body \in SaveBodies : Idle /\ CanSave(MaxSaves, MaxPending) /\ SaveFind(body)
    \/ \E profile \in BagToSet(pending), now \in Now(MaxClock) : SaveInsert(profile, now)
    \/ \E profile_id \in ProfileIds : Idle /\ delete_profile(profile_id)
    \/ \E profile_id \in ProfileIds, tags \in TagLists :
           Idle /\ update_profile_tags(profile_id, tags)
    \/ Idle /\ get_saved_profiles(None, None)

SpecSeq == Init /\ [][NextSeq]_vars

\* Listings of a store filled by saves at any reading of the clock.
NextList ==
    \/ \E body \in ListBodies : Idle /\ CanSave(MaxListSaves, 1) /\ SaveFind(body)
    \/ \E profile \in BagToSet(pending), now \in Now(MaxListClock) : SaveInsert(profile, now)
    \/ \E search_term \in SearchTerms, tags \in TagParams :
           Idle /\ get_saved_profiles(search_term, tags)

SpecList == Init /\ [][NextList]_vars

\* The search relay: every request is one step, the provider's answer an input.
NextSearch ==
    \E body \in SearchBodies, response \in ProviderResponses :
        search_linkedin_profiles(body, response)

SpecSearch == Init /\ [][NextSearch]_vars

(* ------------------------------- claims -------------------------------- *)

Links(coll) == {coll[i].link : i \in DOMAIN coll}

Ids(coll) == {coll[i].id : i \in DOMAIN coll}

\* C1: in every reachable state of the store, under any interleaving of
\* concurrent requests, no two stored profiles have the same link.
LinkUnique == \A i, j \in DOMAIN store : i # j => store[i].link # store[j].link

\* C2: a search whose keywords field is the empty string fails with 422
\* and makes no outbound request to the provider.
EmptyKeywordsRejected ==
    (resp.op = "search" /\ Get(resp.request, "keywords", "none") = "")
        => (resp.status = HTTP_UNPROCESSABLE /\ outbound = None)

\* C3: when the provider answers with a non-200 status, the search
\* endpoint fails with that same status.
UpstreamStatusSurfaced ==
    (resp.op = "search" /\ "provider" \in DOMAIN resp /\ resp.provider.status_code # HTTP_OK)
        => resp.status = resp.provider.status_code

\* C4: with requests executed one at a time, a save whose link is the link
\* of a stored profile fails with 400 whatever its other fields are, and
\* leaves the store unchanged.
DuplicateLinkRejected ==
    (resp.op \in {"save", "save_await"} /\ resp.profile.link \in Links(prev))
        => (resp.op = "save" /\ resp.status = HTTP_CONFLICT /\ store = prev)

\* C4: a save was rejected whose title differs from the stored profile's.
DuplicateLinkRejectedWitness ==
    /\ resp.op = "save"
    /\ resp.status = HTTP_CONFLICT
    /\ \E i \in DOMAIN prev :
           prev[i].link = resp.profile.link /\ prev[i].title # resp.profile.title

\* C5: a save whose link is not stored is not rejected; it adds exactly one
\* profile with the submitted title, link, snippet and thumbnail, an id no
\* stored profile has, a saved_at timestamp and the submitted tags ([] when
\* there are none), answers 200 and returns the profile it stored.
NewLinkSaved ==
    /\ (resp.op = "save" /\ resp.status = HTTP_CONFLICT) => resp.profile.link \in Links(prev)
    /\ resp.op = "save_await" => BagIn(resp.profile, pending)
    /\ (resp.op = "save" /\ resp.status # HTTP_CONFLICT) =>
           /\ resp.status = HTTP_OK
           /\ Len(store) = Len(prev) + 1
           /\ SubSeq(store, 1, Len(prev)) = prev
           /\ LET doc == store[Len(store)]
              IN  /\ doc.title = resp.profile.title
                  /\ doc.link = resp.profile.link
                  /\ doc.snippet = resp.profile.snippet
                  /\ doc.thumbnail = resp.profile.thumbnail
                  /\ doc.id \notin Ids(prev)
                  /\ doc.tags = IF resp.profile.tags = None THEN <<>>
                                ELSE TheValue(resp.profile.tags)
                  /\ doc.saved_at = isoformat(resp.body.saved_at)
                  /\ resp.body = ReadBack(doc)

\* C5: a profile was saved, with tags and a thumbnail, into a store that
\* holds another profile.
NewLinkSavedWitness ==
    /\ resp.op = "save"
    /\ resp.status = HTTP_OK
    /\ prev # <<>>
    /\ resp.profile.tags # None
    /\ store[Len(store)].tags # <<>>

\* C6: delete answers 404 and leaves the store unchanged exactly when no
\* stored profile has the id; otherwise it answers 200 and removes that
\* profile and no other, and no later listing (nor the store) holds a
\* profile with a deleted id.
DeleteContract ==
    /\ resp.op = "delete" =>
           LET hits == {i \in DOMAIN prev : prev[i].id = resp.profile_id}
           IN  /\ resp.status = HTTP_NOT_FOUND <=> hits = {}
               /\ hits = {} => store = prev
               /\ hits # {} =>
                      /\ resp.status = HTTP_OK
                      /\ \E i \in hits : store = RemoveAt(prev, i)
                      /\ resp.profile_id \notin Ids(store)
    /\ resp.op = "list" => \A i \in DOMAIN resp.body : resp.body[i].id \notin deleted
    /\ Ids(store) \cap deleted = {}

\* C6: a delete removed one profile of a store that holds another one.
DeleteContractWitness ==
    /\ resp.op = "delete"
    /\ resp.status = HTTP_OK
    /\ Len(prev) = 2
    /\ Len(store) = 1

\* C7: update_tags answers 404 and leaves the store unchanged when no
\* stored profile has the id; otherwise it answers 200 and the store is the
\* one before with that profile's tags replaced by the list supplied, every
\* other field and every other profile as they were.
UpdateTagsContract ==
    resp.op = "update_tags" =>
        LET hits == {i \in DOMAIN prev : prev[i].id = resp.profile_id}
        IN  IF hits = {}
            THEN resp.status = HTTP_NOT_FOUND /\ store = prev
            ELSE /\ resp.status = HTTP_OK
                 /\ \E i \in hits : store = [prev EXCEPT ![i].tags = resp.tags]

\* C7: an update replaced a tag list by one that drops one of its tags,
\* in a store that holds another profile.
UpdateTagsContractWitness ==
    /\ resp.op = "update_tags"
    /\ resp.status = HTTP_OK
    /\ Len(store) = 2
    /\ \E i \in DOMAIN prev :
           /\ prev[i].id = resp.profile_id
           /\ resp.tags # <<>>
           /\ \E t \in Range(prev[i].tags) : t \notin Range(store[i].tags)

\* C8: in every listing, of two profiles saved at different times the one
\* saved later comes first.
ListOrdered ==
    resp.op = "list" =>
        \A i, j \in DOMAIN resp.body :
            Earlier(resp.body[i].saved_at, resp.body[j].saved_at) => j < i

\* C8: profiles saved at T1 < T2 < T3, in that order and across the turn of
\* the year, are listed as [T3, T2, T1].
ListOrderedWitness ==
    /\ resp.op = "list"
    /\ Len(resp.body) = 3
    /\ Earlier(resp.body[3].saved_at, resp.body[2].saved_at)
    /\ Earlier(resp.body[2].saved_at, resp.body[1].saved_at)
    /\ resp.body[1].saved_at.year # resp.body[3].saved_at.year
    /\ resp.body[3].id < resp.body[2].id
    /\ resp.body[2].id < resp.body[1].id

\* text contains term as a literal substring, ignoring case.
ContainsIgnoreCase(text, term) ==
    \E i \in 0..(Len(text) - Len(term)) :
        \A j \in 1..Len(term) : Lower(term[j]) = Lower(text[i + j])

\* The tags given, comma-separated, blanks around them dropped.
TagsGiven(tags) == {strip(t) : t \in Range(split(tags, ","))}

\* The filters of a listing as the claim states them.
SatisfiesFilters(profile, search_term, tags) ==
    /\ search_term # None =>
           \/ ContainsIgnoreCase(profile.title, TheValue(search_term))
           \/ ContainsIgnoreCase(profile.snippet, TheValue(search_term))
    /\ tags # None => Range(profile.tags) \cap TagsGiven(TheValue(tags)) # {}

\* C9: a listing returns exactly the stored profiles that satisfy every
\* filter supplied: search_term as a literal substring of title or snippet,
\* ignoring case; tags as at least one of the tags given; both when both
\* are supplied; all profiles when none is.
ListFilterExact ==
    resp.op = "list" =>
        Range(resp.body) =
            {ReadBack(store[i]) : i \in {k \in DOMAIN store :
                SatisfiesFilters(store[k], resp.search_term, resp.tags)}}

\* The thumbnail of an item as the claim states it: the source of the first
\* thumbnail entry when there is one, None in every other case.
ThumbnailOf(item) ==
    IF HasThumbnailList(item) /\ item.pagemap.cse_thumbnail # <<>>
    THEN Opt(item.pagemap.cse_thumbnail[1], "src")
    ELSE None

\* C10: for every provider answer with status 200 the search succeeds with
\* one result per item, in order, each with the item's title, link and
\* snippet and its thumbnail (None when it has none, an empty thumbnail
\* list included), and the provider's total_results and search_time, "0"
\* and 0 when it reports none.
ProviderSuccessRelayed ==
    (resp.op = "search" /\ "provider" \in DOMAIN resp /\ resp.provider.status_code = HTTP_OK)
        => LET data == resp.provider.data
               items == Get(data, "items", <<>>)
               info == Get(data, "searchInformation", <<>>)
           IN  /\ resp.status = HTTP_OK
               /\ resp.body =
                      Some([results |-> [i \in DOMAIN items |->
                                            [title |-> Get(items[i], "title", ""),
                                             link |-> Get(items[i], "link", ""),
                                             snippet |-> Get(items[i], "snippet", ""),
                                             thumbnail |-> ThumbnailOf(items[i])]],
                            total_results |-> Get(info, "totalResults", "0"),
                            search_time |-> Get(info, "searchTime", 0)])

====
